---- MODULE Spec2Model ----
(***************************************************************************)
(* Model of shaall.py: listBounds (the chunk planner) and shaPath (the     *)
(* streaming hasher that runs one dd per planned chunk).                   *)
(*                                                                         *)
(* The program is Python 2 (print_function import, int doctest output), so *)
(* "blocksize /= 2" and "//" are integer floor divisions on non-negative   *)
(* integers.                                                               *)
(***************************************************************************)
EXTENDS Integers, Sequences, FiniteSets, TLC

\* Bounds of the model.
MaxFileSize == 9
MaxBlockSize == 8

\* The alphabet the bytes of the file are drawn from.
Bytes == {0, 1}

VARIABLES
    filesize,       \* argument of shaPath / listBounds
    max_blocksize,  \* argument of shaPath / listBounds
    data,           \* the declared bytes of the path, data[i+1] is byte i
    pc,             \* position in the program
    branch,         \* which branch listBounds took: "none", "small", "large"
    ret,            \* listBounds: the list under construction
    bytes_left,     \* listBounds: local
    blocksize,      \* listBounds: local
    bounds,         \* shaPath: the plan listBounds returned
    idx,            \* shaPath: index of the bound of the for loop
    pipe,           \* shaPath: what is left to read on p_dd.stdout
    s,              \* shaPath: the state of the hash object
    fed,            \* every byte given to s.update, in order
    reads,          \* number of dd processes started
    srcFault,       \* some dd delivered fewer bytes than the source holds
    err,            \* the exception that ended the program, or "none"
    digest          \* the value shaPath returned, or NoDigest

vars == <<filesize, max_blocksize, data, pc, branch, ret, bytes_left,
          blocksize, bounds, idx, pipe, s, fed, reads, srcFault, err, digest>>

NoDigest == -1

----------------------------------------------------------------------------
\* Helpers

Min(a, b) == IF a < b THEN a ELSE b

\* int(math.log(x, 2)) for x >= 1
RECURSIVE IntLog2(_)
IntLog2(x) == IF x <= 1 THEN 0 ELSE 1 + IntLog2(x \div 2)

\* math.log raises ValueError for x <= 0
MathLogRaises(x) == x <= 0

isPowerOf2Loose(x) == 2 ^ IntLog2(x) <= x

isPowerOf2(x) == 2 ^ IntLog2(x) = x

\* the sha256 object: an order-sensitive fold over the bytes given to update
Sha256Init == 7

RECURSIVE Sha256Update(_, _)
Sha256Update(h, bytes) ==
    IF bytes = <<>> THEN h
    ELSE Sha256Update((31 * h + Head(bytes) + 1) % 251, Tail(bytes))

\* sha256 of a whole byte sequence hashed directly
Sha256(bytes) == Sha256Update(Sha256Init, bytes)

----------------------------------------------------------------------------
\* listBounds

IsSmallFileInclusive(fs, mbs) == fs <= mbs

\* "if filesize < max_blocksize"
IsSmallFile(fs, mbs) == fs < mbs

StartBlocksizeDoubled(mbs) == 2 * mbs

\* "blocksize = max_blocksize"
StartBlocksize(mbs) == mbs

\* "blocks = bytes_left//blocksize"
Blocks(left, bs) == left \div bs

ShouldEmitAlways(blocks) == TRUE

\* "if blocks:"
ShouldEmit(blocks) == blocks # 0

SkipBytes(offset, bs) == offset

\* "skip": offset//blocksize
Skip(offset, bs) == offset \div bs

HalveDecrement(bs) == bs - 1

HalveQuarter(bs) == bs \div 4

\* "blocksize /= 2"
Halve(bs) == bs \div 2

Init ==
    /\ filesize \in 0..MaxFileSize
    /\ max_blocksize \in 0..MaxBlockSize
    /\ data \in [1..filesize -> Bytes]
    /\ pc = "listBounds"
    /\ branch = "none"
    /\ ret = <<>>
    /\ bytes_left = 0
    /\ blocksize = 0
    /\ bounds = <<>>
    /\ idx = 1
    /\ pipe = <<>>
    /\ s = Sha256Init
    /\ fed = <<>>
    /\ reads = 0
    /\ srcFault = FALSE
    /\ err = "none"
    /\ digest = NoDigest

\* the power-of-two check fails or math.log raises: listBounds raises and
\* shaPath with it
RaiseNotPowerOf2 ==
    /\ pc = "listBounds"
    /\ MathLogRaises(max_blocksize) \/ ~isPowerOf2(max_blocksize)
    /\ pc' = "error"
    /\ err' = IF MathLogRaises(max_blocksize) THEN "ValueError" ELSE "Exception"
    /\ UNCHANGED <<filesize, max_blocksize, data, branch, ret, bytes_left,
                   blocksize, bounds, idx, pipe, s, fed, reads, srcFault,
                   digest>>

\* small files: one descriptor, returned to shaPath which creates the hash
SmallFile ==
    /\ pc = "listBounds"
    /\ ~MathLogRaises(max_blocksize) /\ isPowerOf2(max_blocksize)
    /\ IsSmallFile(filesize, max_blocksize)
    /\ branch' = "small"
    /\ bounds' = <<[skip |-> 0, count |-> 1, bs |-> filesize]>>
    /\ idx' = 1
    /\ s' = Sha256Init
    /\ pc' = "for"
    /\ UNCHANGED <<filesize, max_blocksize, data, ret, bytes_left, blocksize,
                   pipe, fed, reads, srcFault, err, digest>>

\* large files: initialise the locals of the loop
LargeFile ==
    /\ pc = "listBounds"
    /\ ~MathLogRaises(max_blocksize) /\ isPowerOf2(max_blocksize)
    /\ ~IsSmallFile(filesize, max_blocksize)
    /\ branch' = "large"
    /\ ret' = <<>>
    /\ bytes_left' = filesize
    /\ blocksize' = StartBlocksize(max_blocksize)
    /\ pc' = "while"
    /\ UNCHANGED <<filesize, max_blocksize, data, bounds, idx, pipe, s, fed,
                   reads, srcFault, err, digest>>

\* one iteration of "while bytes_left"; a zero blocksize makes the floor
\* division raise ZeroDivisionError
LoopIter ==
    /\ pc = "while"
    /\ bytes_left # 0
    /\ IF blocksize = 0
       THEN /\ pc' = "error"
            /\ err' = "ZeroDivisionError"
            /\ UNCHANGED <<ret, bytes_left, blocksize>>
       ELSE LET blocks == Blocks(bytes_left, blocksize)
                offset == filesize - bytes_left
            IN  /\ ret' = IF ShouldEmit(blocks)
                          THEN Append(ret, [skip |-> Skip(offset, blocksize),
                                            count |-> blocks,
                                            bs |-> blocksize])
                          ELSE ret
                /\ bytes_left' = bytes_left - blocks * blocksize
                /\ blocksize' = Halve(blocksize)
                /\ UNCHANGED <<pc, err>>
    /\ UNCHANGED <<filesize, max_blocksize, data, branch, bounds, idx, pipe,
                   s, fed, reads, srcFault, digest>>

\* "return ret", received by shaPath which creates the hash
LoopReturn ==
    /\ pc = "while"
    /\ bytes_left = 0
    /\ bounds' = ret
    /\ idx' = 1
    /\ s' = Sha256Init
    /\ pc' = "for"
    /\ UNCHANGED <<filesize, max_blocksize, data, branch, ret, bytes_left,
                   blocksize, fed, pipe, reads, srcFault, err, digest>>

----------------------------------------------------------------------------
\* shaPath

DDRangeNoSkip(bound) ==
    LET last == Min(bound.count * bound.bs, Len(data))
    IN  IF bound.bs = 0 \/ last <= 0 THEN <<>>
        ELSE SubSeq(data, 1, last)

\* the bytes of the source inside the range dd is asked for
\* (bs=0 is rejected by dd, which then writes nothing)
DDRange(bound) ==
    LET first == bound.skip * bound.bs
        last  == Min(first + bound.count * bound.bs, Len(data))
    IN  IF bound.bs = 0 \/ last <= first THEN <<>>
        ELSE SubSeq(data, first + 1, last)

\* p_dd.stdout.read(bs): up to bs bytes of the pipe
ReadChunk(p, bs) == SubSeq(p, 1, Min(bs, Len(p)))

\* subprocess.Popen(['dd', bs, count, skip, if]): dd writes the range to the
\* pipe, or only a prefix of it when the read of the source fails part-way
StartDD ==
    /\ pc = "for"
    /\ idx <= Len(bounds)
    /\ \E n \in 0..Len(DDRange(bounds[idx])) :
          /\ pipe' = SubSeq(DDRange(bounds[idx]), 1, n)
          /\ srcFault' = (srcFault \/ n < Len(DDRange(bounds[idx])))
    /\ reads' = reads + 1
    /\ pc' = "read"
    /\ UNCHANGED <<filesize, max_blocksize, data, branch, ret, bytes_left,
                   blocksize, bounds, idx, s, fed, err, digest>>

\* data = p_dd.stdout.read(bound['bs']) is not empty: s.update(data)
ReadData ==
    /\ pc = "read"
    /\ ReadChunk(pipe, bounds[idx].bs) # <<>>
    /\ LET chunk == ReadChunk(pipe, bounds[idx].bs)
       IN  /\ s' = Sha256Update(s, chunk)
           /\ fed' = fed \o chunk
           /\ pipe' = SubSeq(pipe, Len(chunk) + 1, Len(pipe))
    /\ UNCHANGED <<filesize, max_blocksize, data, pc, branch, ret, bytes_left,
                   blocksize, bounds, idx, reads, srcFault, err, digest>>

\* data is empty: break, on to the next bound
ReadEOF ==
    /\ pc = "read"
    /\ ReadChunk(pipe, bounds[idx].bs) = <<>>
    /\ idx' = idx + 1
    /\ pc' = "for"
    /\ UNCHANGED <<filesize, max_blocksize, data, branch, ret, bytes_left,
                   blocksize, bounds, pipe, s, fed, reads, srcFault, err,
                   digest>>

\* "return s.hexdigest()"
Finish ==
    /\ pc = "for"
    /\ idx > Len(bounds)
    /\ digest' = s
    /\ pc' = "done"
    /\ UNCHANGED <<filesize, max_blocksize, data, branch, ret, bytes_left,
                   blocksize, bounds, idx, pipe, s, fed, reads, srcFault, err>>

Next ==
    \/ RaiseNotPowerOf2
    \/ SmallFile
    \/ LargeFile
    \/ LoopIter
    \/ LoopReturn
    \/ StartDD
    \/ ReadData
    \/ ReadEOF
    \/ Finish

Spec == Init /\ [][Next]_vars

\* the interpreter always takes the next step of the sequential program
FairSpec == Spec /\ WF_vars(Next)

----------------------------------------------------------------------------
\* Properties

\* listBounds has returned its plan to shaPath
Planned == pc \in {"for", "read", "done"}

\* x is a power of two: exactly one set bit
IsPow2(x) == \E k \in 0..(MaxBlockSize + 1) : x = 2 ^ k

\* the exponent of a power of two
Log2(x) == CHOOSE k \in 0..(MaxBlockSize + 1) : x = 2 ^ k

\* the byte offsets a descriptor covers: [skip*bs, skip*bs + count*bs)
RangeOf(b) == (b.skip * b.bs)..(b.skip * b.bs + b.count * b.bs - 1)

\* C1: the ranges of the descriptors of the plan cover every offset below
\* filesize exactly once and no offset at or beyond filesize.
C1_Coverage ==
    Planned =>
        /\ \A i \in 0..(filesize - 1) :
              Cardinality({k \in DOMAIN bounds : i \in RangeOf(bounds[k])}) = 1
        /\ \A k \in DOMAIN bounds : RangeOf(bounds[k]) \subseteq 0..(filesize - 1)

C1_Witness ==
    /\ Planned
    /\ filesize = 7
    /\ Len(bounds) = 3
    /\ bounds[3].skip = 6

\* C2: when the source delivers every requested byte, the bytes given to the
\* hash are at every moment a prefix of the file, and when shaPath returns
\* they are the whole file in order and the digest is that of the file hashed
\* directly.
C2_StreamEqualsFile ==
    ~srcFault =>
        /\ Len(fed) <= Len(data)
        /\ fed = SubSeq(data, 1, Min(Len(fed), Len(data)))
        /\ pc = "done" => (fed = data /\ digest = Sha256(data))

C2_Witness ==
    /\ pc = "done"
    /\ ~srcFault
    /\ Len(bounds) >= 2
    /\ bounds[1].count >= 2
    /\ fed = data
    /\ \E i, j \in DOMAIN data : data[i] # data[j]

\* C3: byte offsets of consecutive descriptors strictly increase, block sizes
\* do not increase and each later block size divides the one before it.
C3_Ordered ==
    Planned =>
        \A k \in 1..(Len(bounds) - 1) :
            /\ bounds[k].skip * bounds[k].bs < bounds[k + 1].skip * bounds[k + 1].bs
            /\ bounds[k + 1].bs <= bounds[k].bs
            /\ bounds[k + 1].bs > 0
            /\ bounds[k].bs % bounds[k + 1].bs = 0

C3_Witness ==
    /\ Planned
    /\ Len(bounds) >= 3
    /\ bounds[1].bs = 4
    /\ bounds[1].count = 1

\* C4 as stated: every descriptor has a block size that is a positive power
\* of two no larger than max_blocksize, and a positive count.
C4_Original ==
    Planned =>
        \A k \in DOMAIN bounds :
            /\ bounds[k].bs > 0
            /\ IsPow2(bounds[k].bs)
            /\ bounds[k].bs <= max_blocksize
            /\ bounds[k].count > 0

\* C4 amended: every descriptor has a positive count and a block size no
\* larger than max_blocksize; for filesize >= max_blocksize the block size
\* is a positive power of two, and for filesize < max_blocksize the block
\* size of the single descriptor is filesize itself.
C4_Amended ==
    Planned =>
        \A k \in DOMAIN bounds :
            /\ bounds[k].count > 0
            /\ bounds[k].bs <= max_blocksize
            /\ filesize >= max_blocksize =>
                  (bounds[k].bs > 0 /\ IsPow2(bounds[k].bs))
            /\ filesize < max_blocksize => bounds[k].bs = filesize

C4_Witness ==
    /\ Planned
    /\ filesize = 7
    /\ max_blocksize = 2
    /\ Len(bounds) = 2
    /\ bounds[1].count = 3

\* C5: with a max_blocksize that is not a power of two the program never
\* gets past the check of listBounds: no plan, no dd started, no byte
\* hashed, no digest.
C5_NotPowerOf2Fails ==
    ~IsPow2(max_blocksize) =>
        /\ pc \in {"listBounds", "error"}
        /\ branch = "none"
        /\ bounds = <<>>
        /\ reads = 0
        /\ fed = <<>>
        /\ digest = NoDigest

C5_Witness ==
    /\ pc = "error"
    /\ err = "Exception"
    /\ max_blocksize = 6
    /\ filesize = 7
    /\ reads = 0

\* C6 as stated: a digest is returned only when all filesize declared bytes
\* have been given to the hash.
C6_Original ==
    pc = "done" => (Len(fed) = filesize /\ digest # NoDigest)

\* C7: the plan has at most log2(max_blocksize) + 1 descriptors.
C7_PlanLength ==
    Planned => Len(bounds) <= Log2(max_blocksize) + 1

C7_Witness ==
    /\ Planned
    /\ max_blocksize = 4
    /\ Len(bounds) = 3

\* C8: for filesize < max_blocksize the plan is the single descriptor
\* skip 0, count 1, bs filesize; for filesize = max_blocksize the halving
\* branch runs and gives the single descriptor skip 0, count 1,
\* bs max_blocksize.
C8_SmallFile ==
    Planned =>
        /\ filesize < max_blocksize =>
              /\ branch = "small"
              /\ bounds = <<[skip |-> 0, count |-> 1, bs |-> filesize]>>
        /\ filesize = max_blocksize =>
              /\ branch = "large"
              /\ bounds = <<[skip |-> 0, count |-> 1, bs |-> max_blocksize]>>

C8_Witness ==
    /\ Planned
    /\ branch = "small"
    /\ filesize = 5
    /\ max_blocksize = 8
    /\ bounds[1].bs = 5

\* C9: in the halving loop the block size is at least 1 whenever bytes are
\* left, the division by a zero block size never happens, and the loop
\* always reaches its return.
C9_LoopTerminates ==
    /\ [](pc = "while" /\ bytes_left # 0 => blocksize >= 1)
    /\ [](err # "ZeroDivisionError")
    /\ (pc = "while") ~> (pc = "for")

C9_Witness ==
    /\ pc = "while"
    /\ bytes_left = 0
    /\ blocksize = 0
    /\ Len(ret) >= 2
    /\ ret[Len(ret)].bs = 1

\* C10: every iteration that emits a descriptor does so at a byte offset
\* that is a multiple of the block size, and the emitted skip times the
\* block size is that offset.
C10_OffsetAligned ==
    [][(pc = "while" /\ bytes_left # 0 /\ blocksize # 0 /\ Len(ret') = Len(ret) + 1) =>
          /\ (filesize - bytes_left) % blocksize = 0
          /\ ret'[Len(ret')].bs = blocksize
          /\ ret'[Len(ret')].skip * blocksize = filesize - bytes_left]_vars

C10_Witness ==
    /\ pc = "while"
    /\ Len(ret) >= 2
    /\ ret[Len(ret)].skip >= 2
    /\ ret[Len(ret)].bs = 2

====
